---- MODULE Spec2Model ----
(***************************************************************************)
(* A model of the restorable image layer of ebiten                         *)
(* (internal/restorable/image.go, internal/restorable/images.go).          *)
(*                                                                         *)
(* Image objects live in a heap (a sequence: an *Image is its index), the  *)
(* process-wide registry is theImages, and every call the layer makes to   *)
(* the graphicscommand package is appended to queue, which SwapBuffers     *)
(* flushes.  A Go panic stops the process: panicked becomes TRUE and no    *)
(* further call is made.  last records the most recent call, with its      *)
(* arguments and results, so that properties can speak about "after a call *)
(* of WritePixels(pixels, region)".                                        *)
(***************************************************************************)
EXTENDS Integers, Sequences, FiniteSets, TLC

\* ------------------------------------------------------------------ bounds
MaxImages == 2
MaxSize == 2
MaxHandles == 3
MaxPending == 0
MaxColour == 1

\* --------------------------------------------------------------- constants
Nil == 0

ImageTypeRegular == 0
ImageTypeScreen == 1
ImageTypeVolatile == 2

ImageTypes == {ImageTypeRegular, ImageTypeScreen, ImageTypeVolatile}

\* ------------------------------------------------- image.Rectangle (Go std)
Min2(a, b) == IF a <= b THEN a ELSE b

Max2(a, b) == IF a >= b THEN a ELSE b

\* The struct literal image.Rectangle{Min, Max}: any four integers.
Rectangle(x0, y0, x1, y1) == [Min |-> [X |-> x0, Y |-> y0], Max |-> [X |-> x1, Y |-> y1]]

\* image.Rect: the well-formed rectangle of two corners.
Rect(x0, y0, x1, y1) == Rectangle(Min2(x0, x1), Min2(y0, y1), Max2(x0, x1), Max2(y0, y1))

\* image.Rectangle{}, the zero rectangle.
ZR == Rectangle(0, 0, 0, 0)

Dx(r) == r.Max.X - r.Min.X

Dy(r) == r.Max.Y - r.Min.Y

Empty(r) == r.Min.X >= r.Max.X \/ r.Min.Y >= r.Max.Y

\* r.In(s): every point of r is in s.
In(r, s) ==
    IF Empty(r) THEN TRUE
    ELSE /\ s.Min.X <= r.Min.X /\ r.Max.X <= s.Max.X
         /\ s.Min.Y <= r.Min.Y /\ r.Max.Y <= s.Max.Y

\* The texels of a rectangle in row-major order, as the bytes of a pixel
\* buffer of that rectangle are laid out (one entry per RGBA texel).
Texels(r) ==
    IF Empty(r) THEN <<>>
    ELSE [k \in 1..(Dx(r) * Dy(r)) |->
            [X |-> r.Min.X + ((k - 1) % Dx(r)), Y |-> r.Min.Y + ((k - 1) \div Dx(r))]]

\* ------------------------------------------------- graphics.ManagedBytes
\* A *graphics.ManagedBytes: nil, or the texel values of a region in row-major order.
NilBytes == [nil |-> TRUE, bytes |-> <<>>]

Bytes(s) == [nil |-> FALSE, bytes |-> s]

\* ------------------------------------------------------------------ state
VARIABLES
    graphicsDriverInitialized,  \* images.go: var graphicsDriverInitialized bool
    heap,                       \* the Image objects constructed so far, by identity
    theImages,                  \* images.go: var theImages
    natives,                    \* the graphicscommand.Image objects created so far
    queue,                      \* the calls made to graphicscommand since the last flush
    panicked,                   \* the process has panicked
    last,                       \* the most recent call
    regions,                    \* a []image.Rectangle handed to appendRegionRemovingDuplicates
    path,                       \* path.go: a vector.Path, and what the last call on it did
    resource                    \* an _ID3D12Resource.Map call: its position and its locals

vars ==
    <<graphicsDriverInitialized, heap, theImages, natives, queue, panicked, last, regions, path,
      resource>>

\* The program state an operation reads and writes, as one value.
World ==
    [init |-> graphicsDriverInitialized, heap |-> heap, theImages |-> theImages,
     natives |-> natives, queue |-> queue, panic |-> panicked]

Panic(w) == [w EXCEPT !.panic = TRUE]

\* ------------------------------------------------------- graphicscommand
\* One call recorded in the queue.
Cmd(kind, dst, region, pixels, srcs, vertices) ==
    [kind |-> kind, dst |-> dst, region |-> region, pixels |-> pixels, srcs |-> srcs,
     vertices |-> vertices]

Enqueue(w, c) == [w EXCEPT !.queue = Append(@, c)]

\* The backend-padded size of one dimension: the next power of two.
RECURSIVE PowerOfTwoAtLeast(_, _)
PowerOfTwoAtLeast(x, p) == IF p >= x THEN p ELSE PowerOfTwoAtLeast(x, 2 * p)

minInternalImageSize == 2

InternalImageSize(x) == PowerOfTwoAtLeast(x, minInternalImageSize)

\* graphicscommand.NewImage(width, height, screen): the new handle is Len(natives).
gcNewImage(w, width, height, screen) ==
    LET n == [width |-> width, height |-> height, screen |-> screen,
              internalWidth |-> InternalImageSize(width),
              internalHeight |-> InternalImageSize(height)]
        w1 == [w EXCEPT !.natives = Append(@, n)]
    IN Enqueue(w1, Cmd("new", Len(w1.natives), ZR, NilBytes, {}, <<>>))

\* (*graphicscommand.Image).InternalSize
InternalSize(w, h) == <<w.natives[h].internalWidth, w.natives[h].internalHeight>>

gcWritePixels(w, h, pixels, region) == Enqueue(w, Cmd("write", h, region, pixels, {}, <<>>))

gcDrawTriangles(w, h, imgs, vertices, dstRegion) ==
    Enqueue(w, Cmd("draw", h, dstRegion, NilBytes, imgs, vertices))

\* A native image nothing refers to any more: disposed, or lost with its context.
Gone == [width |-> 0, height |-> 0, screen |-> FALSE, internalWidth |-> 0, internalHeight |-> 0]

\* (*graphicscommand.Image).Dispose
gcDispose(w, h) ==
    Enqueue([w EXCEPT !.natives[h] = Gone], Cmd("dispose", h, ZR, NilBytes, {}, <<>>))

\* The native image a restored image leaves behind went with the lost context.
gcLost(w, h) == [w EXCEPT !.natives[h] = Gone]

\* graphics.QuadVerticesFromDstAndSrc: the four corners of a quad.
QuadVerticesFromDstAndSrc(dx0, dy0, dx1, dy1, sx0, sy0, sx1, sy1) ==
    << [DstX |-> dx0, DstY |-> dy0, SrcX |-> sx0, SrcY |-> sy0],
       [DstX |-> dx1, DstY |-> dy0, SrcX |-> sx1, SrcY |-> sy0],
       [DstX |-> dx0, DstY |-> dy1, SrcX |-> sx0, SrcY |-> sy1],
       [DstX |-> dx1, DstY |-> dy1, SrcX |-> sx1, SrcY |-> sy1] >>

\* ------------------------------------------------------------ Pixels
\* Pixels{}: pixelsRecords == nil.  records holds (pix, region) pairs in insertion order.
EmptyPixels == [nil |-> TRUE, records |-> <<>>]

\* pixelsRecords.apply: one pixel upload per record, in insertion order.
RECURSIVE pixelsRecordsApply(_, _, _)
pixelsRecordsApply(w, records, h) ==
    IF records = <<>> THEN w
    ELSE pixelsRecordsApply(gcWritePixels(w, h, Head(records).pix, Head(records).region),
                            Tail(records), h)

\* Pixels.Apply
PixelsApply(w, p, h) == IF p.nil THEN w ELSE pixelsRecordsApply(w, p.records, h)

\* The value record rec holds for texel t (rec.region contains t).
RecordAt(rec, t) ==
    rec.pix.bytes[(t.Y - rec.region.Min.Y) * Dx(rec.region) + (t.X - rec.region.Min.X) + 1]

Covers(r, t) == r.Min.X <= t.X /\ t.X < r.Max.X /\ r.Min.Y <= t.Y /\ t.Y < r.Max.Y

\* pixelsRecords.readPixels: the records composited in insertion order, zero elsewhere.
pixelsRecordsReadPixels(records, region) ==
    [k \in DOMAIN Texels(region) |->
        LET t == Texels(region)[k]
            hits == {n \in DOMAIN records : Covers(records[n].region, t) /\ ~records[n].pix.nil}
            cov == {n \in DOMAIN records : Covers(records[n].region, t)}
            top == CHOOSE n \in cov : \A m \in cov : m <= n
        IN IF cov = {} \/ top \notin hits THEN 0 ELSE RecordAt(records[top], t)]

\* Pixels.ReadPixels: the bytes written to the pixels slice (of the region's size).
PixelsReadPixels(p, region) ==
    IF p.nil THEN [k \in DOMAIN Texels(region) |-> 0]
    ELSE pixelsRecordsReadPixels(p.records, region)

\* Pixels.Dispose followed by the assignment of Pixels{}.
PixelsDispose(p) == EmptyPixels

\* ------------------------------------------------------------- registry
\* images.add
imagesAdd(w, i) == [w EXCEPT !.theImages.images = @ \cup {i}]

\* Faulty variant of Image.makeStale: only regular images are marked.
makeStaleOnlyWhenRegular(img, rect) ==
    IF img.imageType = ImageTypeRegular THEN [img EXCEPT !.stale = TRUE] ELSE img

\* Image.makeStale
makeStale(img, rect) == [img EXCEPT !.stale = TRUE]

\* Image.dependsOn
dependsOn(img, target) == FALSE

\* Image.makeStaleIfDependingOn
ImageMakeStaleIfDependingOn(img, target) ==
    IF img.stale THEN img
    ELSE IF dependsOn(img, target) THEN makeStale(img, ZR)
    ELSE img

\* images.makeStaleIfDependingOn.  Its callers pass the receiver of a method
\* call, so target is never nil and the nil panic is not reachable from them.
imagesMakeStaleIfDependingOn(w, target) ==
    IF target = Nil THEN Panic(w)
    ELSE IF w.theImages.lastTarget = target THEN w
    ELSE [w EXCEPT !.theImages.lastTarget = target,
                   !.heap = [j \in DOMAIN w.heap |->
                                IF j \in w.theImages.images
                                THEN ImageMakeStaleIfDependingOn(w.heap[j], target)
                                ELSE w.heap[j]]]

\* Faulty variant of images.remove: the cache is emptied with the entry.
imagesRemoveClearsTarget(w, i) ==
    LET w1 == imagesMakeStaleIfDependingOn(w, i)
    IN IF w1.panic THEN w1
       ELSE [w1 EXCEPT !.theImages.images = @ \ {i}, !.theImages.lastTarget = Nil]

\* Faulty variant of images.remove: the dependents are told, the entry stays.
imagesRemoveKeepsEntry(w, i) == imagesMakeStaleIfDependingOn(w, i)

\* images.remove
imagesRemove(w, i) ==
    LET w1 == imagesMakeStaleIfDependingOn(w, i)
    IN IF w1.panic THEN w1 ELSE [w1 EXCEPT !.theImages.images = @ \ {i}]

\* -------------------------------------------------------------- Image
\* clearImage: a draw of the clear shader over region, with BlendClear.
clearImage(w, h, region) ==
    Enqueue(w, Cmd("clear", h, region, NilBytes, {},
                   QuadVerticesFromDstAndSrc(region.Min.X, region.Min.Y,
                                             region.Max.X, region.Max.Y, 0, 0, 0, 0)))

\* Faulty variant of NewImage's precondition: the check is skipped.
driverReadyUnchecked(w) == TRUE

\* NewImage's precondition.
driverReady(w) == w.init

\* Faulty variant of the region NewImage clears: only the logical width x height.
newImageExtentLogical(w, h) == Rect(0, 0, w.natives[h].width, w.natives[h].height)

\* The region NewImage clears: (0, 0, iw, ih) of i.image.InternalSize().
newImageExtent(w, h) == Rect(0, 0, InternalSize(w, h)[1], InternalSize(w, h)[2])

\* NewImage.  The new image's identity is Len(heap) afterwards.
NewImage(w, width, height, imageType) ==
    IF ~driverReady(w) THEN Panic(w)
    ELSE LET w1 == gcNewImage(w, width, height, imageType = ImageTypeScreen)
             h == Len(w1.natives)
             i == [image |-> h, width |-> width, height |-> height,
                   basePixels |-> EmptyPixels, stale |-> FALSE, staleRegions |-> <<>>,
                   imageType |-> imageType]
             w2 == clearImage(w1, h, newImageExtent(w1, h))
             w3 == [w2 EXCEPT !.heap = Append(@, i)]
         IN imagesAdd(w3, Len(w3.heap))

\* Image.needsRestoring
needsRestoring(img) == img.imageType = ImageTypeRegular

\* WritePixels' two checks of its region.
regionNotPositive(region) == Dx(region) <= 0 \/ Dy(region) <= 0

\* Faulty variant of the range check: only the width is compared.
regionOutOfRangeWidthOnly(img, region) ==
    ~(Empty(region) \/ (0 <= region.Min.X /\ region.Max.X <= img.width))

regionOutOfRange(img, region) == ~In(region, Rect(0, 0, img.width, img.height))

\* Image.WritePixels
WritePixels(w, i, pixels, region) ==
    IF regionNotPositive(region) THEN Panic(w)
    ELSE IF regionOutOfRange(w.heap[i], region) THEN Panic(w)
    ELSE LET w1 == imagesMakeStaleIfDependingOn(w, i)
             w2 == IF ~pixels.nil
                   THEN gcWritePixels(w1, w1.heap[i].image, pixels, region)
                   ELSE clearImage(w1, w1.heap[i].image, region)
         IN IF w1.panic THEN w1
            ELSE [w2 EXCEPT !.heap[i] = makeStale(@, region)]

\* Image.ClearPixels
ClearPixels(w, i, region) == WritePixels(w, i, NilBytes, region)

\* Faulty variant of DrawTriangles' guard: the empty list is drawn too.
noVerticesIgnored(vertices) == FALSE

\* DrawTriangles' guard.
noVertices(vertices) == Len(vertices) = 0

\* Image.DrawTriangles.  srcs is the set of non-nil source images.
DrawTriangles(w, i, srcs, vertices, dstRegion) ==
    IF noVertices(vertices) THEN w
    ELSE LET w1 == imagesMakeStaleIfDependingOn(w, i)
             w2 == [w1 EXCEPT !.heap[i] = makeStale(@, dstRegion)]
             imgs == {w2.heap[s].image : s \in srcs}
         IN IF w1.panic THEN w1
            ELSE gcDrawTriangles(w2, w2.heap[i].image, imgs, vertices, dstRegion)

\* Faulty variant of Image.Dispose: the staleness is not reset.
DisposeLeavesStale(w, i) ==
    LET w1 == imagesRemove(w, i)
        w2 == gcDispose(w1, w1.heap[i].image)
    IN IF w1.panic THEN w1
       ELSE [w2 EXCEPT !.heap[i] =
                [@ EXCEPT !.image = Nil, !.basePixels = PixelsDispose(@)]]

\* Image.Dispose
Dispose(w, i) ==
    LET w1 == imagesRemove(w, i)
        w2 == gcDispose(w1, w1.heap[i].image)
    IN IF w1.panic THEN w1
       ELSE [w2 EXCEPT !.heap[i] =
                [@ EXCEPT !.image = Nil, !.basePixels = PixelsDispose(@),
                          !.stale = FALSE, !.staleRegions = <<>>]]

\* Faulty variant of Extend's test: an image of exactly the size is replaced.
alreadyCoversStrictly(img, width, height) == img.width > width /\ img.height > height

\* Extend's test: the image already has the size asked for.
alreadyCovers(img, width, height) == img.width >= width /\ img.height >= height

\* Faulty variant of the extent Extend copies: the width taken for the height.
copyExtentWidthTwice(w, i) ==
    <<InternalSize(w, w.heap[i].image)[1], InternalSize(w, w.heap[i].image)[1]>>

\* The extent Extend copies: sw, sh := i.image.InternalSize().
copyExtent(w, i) == InternalSize(w, w.heap[i].image)

\* Faulty variant of Image.Extend: the old image is disposed before the copy.
ExtendDisposesFirst(w, i, width, height) ==
    IF alreadyCovers(w.heap[i], width, height) THEN <<w, i>>
    ELSE LET w1 == NewImage(w, width, height, w.heap[i].imageType)
             newImg == Len(w1.heap)
             old == w1.heap[i].image
             sz == InternalSize(w1, old)
             vs == QuadVerticesFromDstAndSrc(0, 0, sz[1], sz[2], 0, 0, sz[1], sz[2])
             dr == Rect(0, 0, sz[1], sz[2])
             w2 == Dispose(w1, i)
             w3 == DrawTriangles(w2, newImg, {}, vs, dr)
         IN IF w1.panic THEN <<w1, Nil>>
            ELSE IF w2.panic THEN <<w2, Nil>>
            ELSE <<[w3 EXCEPT !.queue[Len(w3.queue)].srcs = {old}], newImg>>

\* Image.Extend.  The result is the world and the returned image.
Extend(w, i, width, height) ==
    IF alreadyCovers(w.heap[i], width, height) THEN <<w, i>>
    ELSE LET w1 == NewImage(w, width, height, w.heap[i].imageType)
             newImg == Len(w1.heap)
             sz == copyExtent(w1, i)
             vs == QuadVerticesFromDstAndSrc(0, 0, sz[1], sz[2], 0, 0, sz[1], sz[2])
             dr == Rect(0, 0, sz[1], sz[2])
             w2 == DrawTriangles(w1, newImg, {i}, vs, dr)
             w3 == Dispose(w2, i)
         IN IF w1.panic THEN <<w1, Nil>>
            ELSE IF w2.panic THEN <<w2, Nil>>
            ELSE <<w3, newImg>>

\* Faulty variant of restore's clear: only the logical width x height.
restoreExtentLogical(w, h) == Rect(0, 0, w.natives[h].width, w.natives[h].height)

\* The region restore clears on the fresh native image: (0, 0, iw, ih).
restoreExtent(w, h) == Rect(0, 0, InternalSize(w, h)[1], InternalSize(w, h)[2])

\* Faulty variant of restore's reset of the staleness: the flag is kept.
resetStaleKeepsFlag(img) == [img EXCEPT !.staleRegions = <<>>]

\* restore's reset of the staleness (i.stale = false; i.staleRegions = i.staleRegions[:0]).
resetStale(img) == [img EXCEPT !.stale = FALSE, !.staleRegions = <<>>]

\* Faulty variant of restore's precondition: a stale image is restored anyway.
staleAtRestoreIgnored(img) == FALSE

\* restore's precondition on a regular image.
staleAtRestore(img) == img.stale

\* Image.restore
restore(w, i) ==
    LET img == w.heap[i]
    IN IF img.imageType = ImageTypeScreen THEN
           LET w1 == gcNewImage(gcLost(w, img.image), img.width, img.height, TRUE)
           IN [w1 EXCEPT !.heap[i] =
                  resetStale([@ EXCEPT !.image = Len(w1.natives),
                                       !.basePixels = PixelsDispose(@)])]
       ELSE IF img.imageType = ImageTypeVolatile THEN
           LET w1 == gcNewImage(gcLost(w, img.image), img.width, img.height, FALSE)
               h == Len(w1.natives)
               sz == InternalSize(w1, h)
               w2 == [w1 EXCEPT !.heap[i].image = h]
           IN clearImage(w2, h, Rect(0, 0, sz[1], sz[2]))
       ELSE IF staleAtRestore(img) THEN Panic(w)
       ELSE LET w1 == gcNewImage(gcLost(w, img.image), img.width, img.height, FALSE)
                gimg == Len(w1.natives)
                w2 == clearImage(w1, gimg, restoreExtent(w1, gimg))
                w3 == PixelsApply(w2, img.basePixels, gimg)
            IN [w3 EXCEPT !.heap[i] = resetStale([@ EXCEPT !.image = gimg])]

\* ------------------------------------------------------------- inputs
Sizes == 1..MaxSize

\* The sizes NewImage is called with: every width, at the full height
\* (Extend makes the images of the other sizes).
NewSizes == {<<width, MaxSize>> : width \in Sizes}

\* The rectangles WritePixels and ClearPixels are called with: every
\* non-empty rectangle inside the largest image (out of range for a smaller
\* one), and along each axis the empty, the inverted and the negative spans,
\* with the first row or column along the other axis.
Regions ==
    {r \in {Rectangle(x0, y0, x1, y1) : x0 \in 0..MaxSize, x1 \in 0..MaxSize,
                                        y0 \in 0..MaxSize, y1 \in 0..MaxSize} : ~Empty(r)}
    \cup {Rectangle(x0, 0, x1, 1) : x0 \in (0 - 1)..1, x1 \in 0..1}
    \cup {Rectangle(0, y0, 1, y1) : y0 \in (0 - 1)..1, y1 \in 0..1}

\* The pixel buffers WritePixels is called with for a region: one colour throughout.
Buffers(region) == {Bytes([k \in DOMAIN Texels(region) |-> c]) : c \in 1..MaxColour}

\* The images a caller still holds: constructed and not disposed.
Live == {i \in DOMAIN heap : heap[i].image # Nil}

\* No call of _ID3D12Resource.Map has been made.
NotMapping ==
    [pc |-> "idle", subresource |-> 0, retryCount |-> 0, attempts |-> <<>>, ret |-> 0,
     err |-> "nil"]

NoCall ==
    [op |-> "none", img |-> Nil, pixels |-> NilBytes, region |-> ZR, vertices |-> <<>>,
     srcs |-> {}, width |-> 0, height |-> 0, imageType |-> ImageTypeRegular,
     ret |-> Nil, err |-> FALSE, point |-> [x |-> 0, y |-> 0], passed |-> {},
     indices |-> <<>>, given |-> [vertices |-> <<>>, indices |-> <<>>]]

\* ------------------------------------------------------------- calls
\* A call leaves the program in state w and is recorded as call.
Becomes(w, call) ==
    /\ graphicsDriverInitialized' = w.init
    /\ heap' = w.heap
    /\ theImages' = w.theImages
    /\ natives' = w.natives
    /\ queue' = w.queue
    /\ panicked' = w.panic
    /\ last' = call
    /\ UNCHANGED <<regions, path, resource>>

\* InitializeGraphicsDriverState: the flag is set before the driver is asked,
\* whatever the driver answers.
DoInitializeGraphicsDriverState(err) ==
    Becomes([World EXCEPT !.init = TRUE],
            [NoCall EXCEPT !.op = "InitializeGraphicsDriverState", !.err = err])

DoNewImage(width, height, imageType) ==
    LET w == NewImage(World, width, height, imageType)
    IN Becomes(w, [NoCall EXCEPT !.op = "NewImage", !.width = width, !.height = height,
                                 !.imageType = imageType,
                                 !.ret = IF w.panic THEN Nil ELSE Len(w.heap)])

DoExtend(i, width, height) ==
    LET r == Extend(World, i, width, height)
    IN Becomes(r[1], [NoCall EXCEPT !.op = "Extend", !.img = i, !.width = width,
                                    !.height = height, !.ret = r[2]])

DoWritePixels(i, pixels, region) ==
    Becomes(WritePixels(World, i, pixels, region),
            [NoCall EXCEPT !.op = "WritePixels", !.img = i, !.pixels = pixels,
                           !.region = region])

DoClearPixels(i, region) ==
    Becomes(ClearPixels(World, i, region),
            [NoCall EXCEPT !.op = "ClearPixels", !.img = i, !.region = region])

DoDrawTriangles(i, srcs, vertices, dstRegion) ==
    Becomes(DrawTriangles(World, i, srcs, vertices, dstRegion),
            [NoCall EXCEPT !.op = "DrawTriangles", !.img = i, !.srcs = srcs,
                           !.vertices = vertices, !.region = dstRegion])

\* Image.ReadPixels hands the readback to the native image and returns its error.
DoReadPixels(i, region, err) ==
    Becomes(World, [NoCall EXCEPT !.op = "ReadPixels", !.img = i, !.region = region,
                                  !.err = err])

DoRestore(i) == Becomes(restore(World, i), [NoCall EXCEPT !.op = "restore", !.img = i])

DoDispose(i) == Becomes(Dispose(World, i), [NoCall EXCEPT !.op = "Dispose", !.img = i])

\* SwapBuffers: FlushCommands submits the queue in order; when the driver
\* fails after n calls, the others are left in it.
DoSwapBuffers(err, n) ==
    Becomes([World EXCEPT !.queue = SubSeq(@, n + 1, Len(@))],
            [NoCall EXCEPT !.op = "SwapBuffers", !.err = err])

\* ------------------------------------------------------------- actions
\* The bounds of the model: a call finds at most MaxPending calls waiting for
\* the flush, and images and native images are never reused.
Ready == ~panicked /\ Len(queue) <= MaxPending

Bounded == Len(heap') <= MaxImages /\ Len(natives') <= MaxHandles

Init ==
    /\ graphicsDriverInitialized = FALSE
    /\ heap = <<>>
    /\ theImages = [images |-> {}, lastTarget |-> Nil]
    /\ natives = <<>>
    /\ queue = <<>>
    /\ panicked = FALSE
    /\ last = NoCall
    /\ regions = <<>>
    /\ path = [segs |-> <<>>, cur |-> [x |-> 0, y |-> 0], lineTos |-> 0, calls |-> 0, deepest |-> 0]
    /\ resource = NotMapping

CallInitializeGraphicsDriverState ==
    /\ Ready
    /\ \E err \in BOOLEAN : DoInitializeGraphicsDriverState(err)

CallNewImage ==
    /\ Ready
    /\ \E size \in NewSizes, imageType \in ImageTypes : DoNewImage(size[1], size[2], imageType)
    /\ Bounded

CallExtend ==
    /\ Ready
    /\ \E i \in Live, width \in Sizes, height \in Sizes : DoExtend(i, width, height)
    /\ Bounded

CallWritePixels ==
    /\ Ready
    /\ \E i \in Live, region \in Regions :
        \E pixels \in Buffers(region) : DoWritePixels(i, pixels, region)

CallClearPixels ==
    /\ Ready
    /\ \E i \in Live, region \in Regions : DoClearPixels(i, region)

\* A draw over the whole image, with no vertices or with the quad of the image.
CallDrawTriangles ==
    /\ Ready
    /\ \E i \in Live, srcs \in {s \in SUBSET Live : Cardinality(s) <= 1} :
        LET dr == Rect(0, 0, heap[i].width, heap[i].height)
        IN \E vertices \in {<<>>, QuadVerticesFromDstAndSrc(0, 0, dr.Max.X, dr.Max.Y,
                                                            0, 0, dr.Max.X, dr.Max.Y)} :
            DoDrawTriangles(i, srcs, vertices, dr)

CallReadPixels ==
    /\ Ready
    /\ \E i \in Live, err \in BOOLEAN :
        DoReadPixels(i, Rect(0, 0, heap[i].width, heap[i].height), err)

\* restore is run on the images of the registry when the context is lost.
CallRestore ==
    /\ Ready
    /\ \E i \in theImages.images : DoRestore(i)
    /\ Bounded

CallDispose ==
    /\ Ready
    /\ \E i \in Live : DoDispose(i)

CallSwapBuffers ==
    /\ ~panicked
    /\ \E err \in BOOLEAN, n \in 0..Len(queue) :
        /\ err \/ n = Len(queue)
        /\ DoSwapBuffers(err, n)

Next ==
    \/ CallInitializeGraphicsDriverState
    \/ CallNewImage
    \/ CallExtend
    \/ CallWritePixels
    \/ CallClearPixels
    \/ CallDrawTriangles
    \/ CallReadPixels
    \/ CallRestore
    \/ CallDispose
    \/ CallSwapBuffers

Spec == Init /\ [][Next]_vars

\* ---------------------------------------------------------- one frame
\* The calls made on one regular image within one frame, SwapBuffers not yet
\* reached: the queue holds every native call since the image was made.  A
\* frame has at most MaxFrame native calls before its last WritePixels, and
\* ends with the restore of the image.
MaxFrame == 4

FrameReady == ~panicked /\ last.op # "restore"

FrameInitialize ==
    /\ FrameReady
    /\ ~graphicsDriverInitialized
    /\ \E err \in BOOLEAN : DoInitializeGraphicsDriverState(err)

FrameNewImage ==
    /\ FrameReady
    /\ heap = <<>>
    /\ \E width \in Sizes, height \in Sizes : DoNewImage(width, height, ImageTypeRegular)

FrameWritePixels ==
    /\ FrameReady
    /\ Len(queue) < MaxFrame
    /\ \E i \in Live, region \in Regions :
        \E pixels \in Buffers(region) : DoWritePixels(i, pixels, region)

FrameRestore ==
    /\ FrameReady
    /\ \E i \in theImages.images : DoRestore(i)

NextFrame ==
    \/ FrameInitialize
    \/ FrameNewImage
    \/ FrameWritePixels
    \/ FrameRestore

SpecFrame == Init /\ [][NextFrame]_vars

\* -------------------------------------------------- one image, extended
\* One image of any type and of a size up to MaxExtend, written to within
\* one frame (the queue holds every native call on it), then extended.
MaxExtend == 3

ExtendSizes == 1..MaxExtend

\* The regions of positive size inside an image of the given size.
RegionsWithin(width, height) ==
    {Rectangle(x0, y0, x1, y1) : x0 \in 0..(width - 1), x1 \in 1..width,
                                 y0 \in 0..(height - 1), y1 \in 1..height}
    \ {r \in {Rectangle(x0, y0, x1, y1) : x0 \in 0..(width - 1), x1 \in 1..width,
                                          y0 \in 0..(height - 1), y1 \in 1..height} : Empty(r)}

ExtendReady == ~panicked /\ last.op # "Extend"

ExtendInitialize ==
    /\ ExtendReady
    /\ ~graphicsDriverInitialized
    /\ DoInitializeGraphicsDriverState(FALSE)

ExtendNewImage ==
    /\ ExtendReady
    /\ graphicsDriverInitialized
    /\ heap = <<>>
    /\ \E width \in ExtendSizes, height \in ExtendSizes, imageType \in ImageTypes :
        DoNewImage(width, height, imageType)

ExtendWritePixels ==
    /\ ExtendReady
    /\ Len(queue) < MaxFrame
    /\ \E i \in Live :
        \E region \in RegionsWithin(heap[i].width, heap[i].height) :
            \E pixels \in Buffers(region) : DoWritePixels(i, pixels, region)

ExtendExtend ==
    /\ ExtendReady
    /\ \E i \in Live, width \in ExtendSizes, height \in ExtendSizes : DoExtend(i, width, height)

NextExtend ==
    \/ ExtendInitialize
    \/ ExtendNewImage
    \/ ExtendWritePixels
    \/ ExtendExtend

SpecExtend == Init /\ [][NextExtend]_vars

\* ------------------------------------- appendRegionRemovingDuplicates
\* Faulty variant of the first loop: only an equal region counts as containing.
containedInAnyOnlyEqual(rs, region) == \E n \in DOMAIN rs : region = rs[n]

\* Faulty variant of the first loop: the corner of region is looked for, not region.
containedInAnyByCorner(rs, region) ==
    \E n \in DOMAIN rs : In(Rectangle(region.Min.X, region.Min.Y,
                                      region.Min.X + 1, region.Min.Y + 1), rs[n])

\* The first loop: region is In one of the regions of the list.
containedInAny(rs, region) == \E n \in DOMAIN rs : In(region, rs[n])

\* Faulty variant of the second loop: only the regions equal to region are dropped.
RECURSIVE keepNotContainedOnlyEqual(_, _)
keepNotContainedOnlyEqual(rs, region) ==
    IF rs = <<>> THEN <<>>
    ELSE IF Head(rs) = region THEN keepNotContainedOnlyEqual(Tail(rs), region)
    ELSE <<Head(rs)>> \o keepNotContainedOnlyEqual(Tail(rs), region)

\* The second loop: the regions of the list not In region, in their order.
RECURSIVE keepNotContained(_, _)
keepNotContained(rs, region) ==
    IF rs = <<>> THEN <<>>
    ELSE IF In(Head(rs), region) THEN keepNotContained(Tail(rs), region)
    ELSE <<Head(rs)>> \o keepNotContained(Tail(rs), region)

appendRegionRemovingDuplicates(rs, region) ==
    IF containedInAny(rs, region) THEN rs
    ELSE Append(keepNotContained(rs, region), region)

\* The texels of a rectangle, as a set.
TexelSet(r) == {Texels(r)[k] : k \in DOMAIN Texels(r)}

\* A list that starts empty receives the rectangles of Regions, one call
\* after the other, while it is shorter than MaxRegions; last.passed holds
\* the texels of the rectangles passed so far.
MaxRegions == 3

CallAppendRegion ==
    /\ Len(regions) < MaxRegions
    /\ \E region \in Regions :
        /\ regions' = appendRegionRemovingDuplicates(regions, region)
        /\ last' = [NoCall EXCEPT !.op = "appendRegionRemovingDuplicates", !.region = region,
                                  !.passed = last.passed \cup TexelSet(region)]
    /\ UNCHANGED <<graphicsDriverInitialized, heap, theImages, natives, queue, panicked, path,
                   resource>>

NextRegions == CallAppendRegion

SpecRegions == Init /\ [][NextRegions]_vars

\* ------------------------------------------------------- vector.Path
\* float32 coordinates.  A finite coordinate is a whole number of units of
\* 2^-22, so that the halvings of eleven levels of subdivision are exact;
\* NaN is a value of its own, which every operation hands on and every
\* comparison answers with false (!= with true).
maxLevel == 10

Unit == 2 ^ (2 * (maxLevel + 1))

NaN == 0 - 1

floatAdd(a, b) == IF a = NaN \/ b = NaN THEN NaN ELSE a + b

floatHalf(a) == IF a = NaN THEN NaN ELSE a \div 2

\* (a + b) / 2
Mid(a, b) == floatHalf(floatAdd(a, b))

\* a != b
floatNe(a, b) == a = NaN \/ b = NaN \/ a # b

point(x, y) == [x |-> x, y |-> y]

\* The zero Path.  Beside segs and cur, a path of the model counts what the
\* call in progress does: its LineTo calls (lineTos), its calls of quadTo or
\* cubicTo (calls) and the deepest level of them (deepest).
EmptyPath == [segs |-> <<>>, cur |-> point(0, 0), lineTos |-> 0, calls |-> 0, deepest |-> 0]

\* The path as a call finds it: nothing counted yet.
Fresh(p) == [p EXCEPT !.lineTos = 0, !.calls = 0, !.deepest = 0]

\* quadTo or cubicTo has been entered at level.
Entered(p, level) == [p EXCEPT !.calls = @ + 1, !.deepest = Max2(@, level)]

\* Faulty variant of Path.MoveTo: the segment is started before cur is set.
MoveToAppendsOldCur(p, x, y) == [p EXCEPT !.segs = Append(@, <<p.cur>>), !.cur = point(x, y)]

\* Path.MoveTo
MoveTo(p, x, y) == [p EXCEPT !.segs = Append(@, <<point(x, y)>>), !.cur = point(x, y)]

\* Path.LineTo
LineTo(p, x, y) ==
    LET p1 == IF Len(p.segs) = 0 THEN [p EXCEPT !.segs = Append(@, <<p.cur>>)] ELSE p
        n == Len(p1.segs)
        seg == p1.segs[n]
        p2 == IF floatNe(seg[Len(seg)].x, x) \/ floatNe(seg[Len(seg)].y, y)
              THEN [p1 EXCEPT !.segs[n] = Append(seg, point(x, y))]
              ELSE p1
    IN [p2 EXCEPT !.cur = point(x, y), !.lineTos = @ + 1]

\* The subdivision levels from which the comparison of isPointCloseToSegment
\* comes out true on finite operands: its float32 products are beyond the
\* numbers of the model, so the level is an input of the call, for the last
\* sub-curve at each level (spine), for the other sub-curves, and for
\* cubicTo's second control point.
Depths == {0, 1, 2}

Flatness == [spine : Depths, other : Depths, second : {0, 1}]

\* isPointCloseToSegment.  With a NaN operand the comparison is false; when
\* the segment is a point (a = b = c = 0) it is 0 > 0, false; else close.
isPointCloseToSegment(x, y, x0, y0, x1, y1, close) ==
    IF x0 = NaN \/ y0 = NaN \/ x1 = NaN \/ y1 = NaN \/ x = NaN \/ y = NaN THEN FALSE
    ELSE IF x0 = x1 /\ y0 = y1 THEN FALSE
    ELSE close

\* Faulty variant of the guard of the recursion: one level more is let in.
tooDeepByOne(level) == level > maxLevel + 1

\* The guard of the recursion: level > 10.
tooDeep(level) == level > maxLevel

\* Path.quadTo.  f is the flatness of the call, spine tells the last sub-curve.
RECURSIVE quadTo(_, _, _, _, _, _, _, _)
quadTo(p0, x1, y1, x2, y2, level, f, spine) ==
    LET p == Entered(p0, level)
    IN IF tooDeep(level) THEN p
    ELSE IF isPointCloseToSegment(x1, y1, p.cur.x, p.cur.y, x2, y2,
                                  level >= (IF spine THEN f.spine ELSE f.other))
    THEN LineTo(p, x2, y2)
    ELSE LET x01 == Mid(p.cur.x, x1)
             y01 == Mid(p.cur.y, y1)
             x12 == Mid(x1, x2)
             y12 == Mid(y1, y2)
             x012 == Mid(x01, x12)
             y012 == Mid(y01, y12)
         IN quadTo(quadTo(p, x01, y01, x012, y012, level + 1, f, FALSE),
                   x12, y12, x2, y2, level + 1, f, spine)

\* Path.QuadTo
QuadTo(p, x1, y1, x2, y2, f) == quadTo(p, x1, y1, x2, y2, 0, f, TRUE)

\* Path.cubicTo
RECURSIVE cubicTo(_, _, _, _, _, _, _, _, _, _)
cubicTo(p0, x1, y1, x2, y2, x3, y3, level, f, spine) ==
    LET p == Entered(p0, level)
    IN IF tooDeep(level) THEN p
    ELSE IF /\ isPointCloseToSegment(x1, y1, p.cur.x, p.cur.y, x3, y3,
                                      level >= (IF spine THEN f.spine ELSE f.other))
            /\ isPointCloseToSegment(x2, y2, p.cur.x, p.cur.y, x3, y3, level >= f.second)
    THEN LineTo(p, x3, y3)
    ELSE LET x01 == Mid(p.cur.x, x1)
             y01 == Mid(p.cur.y, y1)
             x12 == Mid(x1, x2)
             y12 == Mid(y1, y2)
             x23 == Mid(x2, x3)
             y23 == Mid(y2, y3)
             x012 == Mid(x01, x12)
             y012 == Mid(y01, y12)
             x123 == Mid(x12, x23)
             y123 == Mid(y12, y23)
             x0123 == Mid(x012, x123)
             y0123 == Mid(y012, y123)
         IN cubicTo(cubicTo(p, x01, y01, x012, y012, x0123, y0123, level + 1, f, FALSE),
                    x123, y123, x23, y23, x3, y3, level + 1, f, spine)

\* Path.CubicTo
CubicTo(p, x1, y1, x2, y2, x3, y3, f) == cubicTo(p, x1, y1, x2, y2, x3, y3, 0, f, TRUE)

\* The calls made on a Path that starts empty: destinations on the grid
\* 0..MaxCoord, control points on the grid or with a NaN abscissa; calls
\* are made while the path has fewer than MaxPathPoints points.
MaxCoord == 1

MaxPathPoints == 2

Coords == {c * Unit : c \in 0..MaxCoord}

Destinations == {point(x, y) : x \in Coords, y \in Coords}

Controls == Destinations \cup {point(NaN, 0)}

RECURSIVE PointCount(_)
PointCount(segs) == IF segs = <<>> THEN 0 ELSE Len(Head(segs)) + PointCount(Tail(segs))

PathReady == PointCount(path.segs) < MaxPathPoints

PathBecomes(p, call) ==
    /\ path' = p
    /\ last' = call
    /\ UNCHANGED <<graphicsDriverInitialized, heap, theImages, natives, queue, panicked, regions,
                   resource>>

CallMoveTo ==
    /\ PathReady
    /\ \E d \in Destinations :
        PathBecomes(MoveTo(Fresh(path), d.x, d.y), [NoCall EXCEPT !.op = "MoveTo", !.point = d])

CallLineTo ==
    /\ PathReady
    /\ \E d \in Destinations :
        PathBecomes(LineTo(Fresh(path), d.x, d.y), [NoCall EXCEPT !.op = "LineTo", !.point = d])

\* The first curve of a path may also come out flat at the last level only,
\* in every sub-curve (a curve of some 10^5 units: QuadTo(300000, 0, 300000,
\* 300000) from the origin); a cubic one then has its control points together.
Flattest ==
    IF last.op \in {"none", "MoveTo"}
    THEN {[spine |-> maxLevel, other |-> maxLevel, second |-> 0]}
    ELSE {}

\* One flatness is enough where no comparison of the call depends on it: the
\* control point is NaN, or every point of the curve is the current position.
Unasked(c1, c2, d) == c1.x = NaN \/ (c1 = d /\ c2 = d /\ d = path.cur)

CallQuadTo ==
    /\ PathReady
    /\ \E c \in Controls, d \in Destinations, f \in Flatness \cup Flattest :
        /\ f.second = 0
        /\ Unasked(c, c, d) => f.spine = 0 /\ f.other = 0
        /\ PathBecomes(QuadTo(Fresh(path), c.x, c.y, d.x, d.y, f),
                       [NoCall EXCEPT !.op = "QuadTo", !.point = d])

CallCubicTo ==
    /\ PathReady
    /\ \E c1 \in Controls, c2 \in Destinations, d \in Destinations, f \in Flatness \cup Flattest :
        /\ Unasked(c1, c2, d) => f.spine = 0 /\ f.other = 0 /\ f.second = 0
        /\ c1.x = NaN => c2 = d
        /\ f.spine = maxLevel => c1 = c2
        /\ PathBecomes(CubicTo(Fresh(path), c1.x, c1.y, c2.x, c2.y, d.x, d.y, f),
                       [NoCall EXCEPT !.op = "CubicTo", !.point = d])

NextPath ==
    \/ CallMoveTo
    \/ CallLineTo
    \/ CallQuadTo
    \/ CallCubicTo

SpecPath == Init /\ [][NextPath]_vars

\* ------------------------------- Path.AppendVerticesAndIndicesForFilling
\* uint16 arithmetic.
uint16(n) == n % 65536

\* The ebiten.Vertex of a point: SrcX, SrcY 0 and the colour 1 (one Unit).
Vertex(pt) ==
    [DstX |-> pt.x, DstY |-> pt.y, SrcX |-> 0, SrcY |-> 0,
     ColorR |-> Unit, ColorG |-> Unit, ColorB |-> Unit, ColorA |-> Unit]

\* The indices appended with point i (from 0) of a segment: base, base + uint16(i-1), base + uint16(i).
triangle(base, i) == <<base, uint16(base + uint16(i - 1)), uint16(base + uint16(i))>>

\* The inner loop: every point gives a vertex, and from the third point
\* (i = 2) on a triangle.  The result is the two slices.
appendSegment(seg, vertices, indices, base) ==
    << vertices \o [i \in 1..Len(seg) |-> Vertex(seg[i])],
       indices \o [j \in 1..(3 * (Len(seg) - 2)) |->
                        triangle(base, 2 + ((j - 1) \div 3))[((j - 1) % 3) + 1]] >>

\* Faulty variant of the base of the first segment: the vertices given are counted.
firstBaseAfterGiven(vertices) == uint16(Len(vertices))

\* The base of the first segment: var base uint16.
firstBase(vertices) == 0

\* The outer loop: the segments of fewer than three points are passed over.
RECURSIVE appendSegments(_, _, _, _)
appendSegments(segs, vertices, indices, base) ==
    IF segs = <<>> THEN <<vertices, indices>>
    ELSE IF Len(Head(segs)) < 3 THEN appendSegments(Tail(segs), vertices, indices, base)
    ELSE LET r == appendSegment(Head(segs), vertices, indices, base)
         IN appendSegments(Tail(segs), r[1], r[2], uint16(base + uint16(Len(Head(segs)))))

\* Path.AppendVerticesAndIndicesForFilling
AppendVerticesAndIndicesForFilling(p, vertices, indices) ==
    appendSegments(p.segs, vertices, indices, firstBase(vertices))

\* A path made of MoveTo and LineTo calls between three points, of at most
\* MaxFillPoints points, is then appended to slices that hold up to
\* MaxGiven vertices and, with a vertex, the indices of a triangle.  The
\* path of MaxCurves curves of 2^10 points each, one point more than a uint16
\* counts, is a path of the model as well.
MaxFillPoints == 7

MaxCurves == 64

MaxGiven == 2

FillPoints == {point(0, 0), point(Unit, 0), point(0, Unit)}

GivenVertices == {[k \in 1..n |-> Vertex(point(Unit, Unit))] : n \in 0..MaxGiven}

GivenIndices(vertices) == IF vertices = <<>> THEN {<<>>} ELSE {<<>>, <<0, 0, 0>>}

FillReady ==
    /\ last.op # "AppendVerticesAndIndicesForFilling"
    /\ PointCount(path.segs) < MaxFillPoints

FillMoveTo ==
    /\ FillReady
    /\ \E d \in FillPoints :
        PathBecomes(MoveTo(Fresh(path), d.x, d.y), [NoCall EXCEPT !.op = "MoveTo", !.point = d])

FillLineTo ==
    /\ FillReady
    /\ \E d \in FillPoints :
        PathBecomes(LineTo(Fresh(path), d.x, d.y), [NoCall EXCEPT !.op = "LineTo", !.point = d])

\* The corner after pt on the way round the three points.
NextPoint(pt) ==
    IF pt = point(0, 0) THEN point(Unit, 0)
    ELSE IF pt = point(Unit, 0) THEN point(0, Unit)
    ELSE point(0, 0)

\* The path p after n more QuadTo calls, each to the next corner and flat
\* at the last level only: n * 2^10 more points.
RECURSIVE CurvesFrom(_, _)
CurvesFrom(p, n) ==
    IF p.cur.x = NaN \/ n = 0 THEN p
    ELSE CurvesFrom(QuadTo(Fresh(p), NextPoint(NextPoint(p.cur)).x, NextPoint(NextPoint(p.cur)).y,
                           NextPoint(p.cur).x, NextPoint(p.cur).y,
                           [spine |-> maxLevel, other |-> maxLevel, second |-> 0]),
                    n - 1)

\* MoveTo(0, 0) and n curves: one segment of n * 2^10 + 1 points.
Curves(n) == CurvesFrom(MoveTo(EmptyPath, 0, 0), n)

FillAppend ==
    /\ last.op # "AppendVerticesAndIndicesForFilling"
    /\ PointCount(path.segs) <= MaxFillPoints
    /\ \E vertices \in GivenVertices :
        \E indices \in GivenIndices(vertices) :
            LET r == AppendVerticesAndIndicesForFilling(path, vertices, indices)
            IN PathBecomes(Fresh(path),
                           [NoCall EXCEPT !.op = "AppendVerticesAndIndicesForFilling",
                                          !.given = [vertices |-> vertices, indices |-> indices],
                                          !.vertices = r[1], !.indices = r[2]])

NextFill ==
    \/ FillMoveTo
    \/ FillLineTo
    \/ FillAppend

\* The path a caller starts from: the zero Path, or the path of MaxCurves curves.
InitFill ==
    /\ graphicsDriverInitialized = FALSE
    /\ heap = <<>>
    /\ theImages = [images |-> {}, lastTarget |-> Nil]
    /\ natives = <<>>
    /\ queue = <<>>
    /\ panicked = FALSE
    /\ last = NoCall
    /\ regions = <<>>
    /\ path \in {EmptyPath, Curves(MaxCurves)}
    /\ resource = NotMapping

SpecFill == InitFill /\ [][NextFill]_vars

\* -------------------------------------------------- _ID3D12Resource.Map
\* windows.S_OK.
S_OK == 0

\* The HRESULTs of the native call: S_OK, and 1 (S_FALSE) for every other one.
HRESULTs == {S_OK, 1}

\* A 64-bit word (uintptr, windows.Handle) as its two 32-bit halves.
Word(high, low) == [high |-> high, low |-> low]

\* uint32(r) of a word r: its lower half.
uint32(r) == r.low

\* What one native ID3D12Resource::Map call gives back: the HRESULT, the
\* upper half of the register it comes in (which the callee leaves as it
\* likes), and what it stored through the data pointer.
NativeOutcomes == [hresult : HRESULTs, high : {0, 1}, data : {0, 4096}]

\* The r of "r, _, _ := syscallN(...)".
Register(o) == Word(o.high, o.hresult)

exhaustedLate(retryCount) == retryCount > 5

\* if retryCount >= 5
exhausted(retryCount) == retryCount >= 5

\* The Map call m after one pass from the label retry with native outcome o.
mapAttempt(m, o) ==
    LET r == Register(o)
        data == o.data
        m1 == [m EXCEPT !.attempts = Append(@, o)]
    IN IF uint32(r) # uint32(Word(0, S_OK))
       THEN [m1 EXCEPT !.pc = "done", !.ret = 0, !.err = "HRESULT"]
       ELSE IF data = 0
       THEN IF exhausted(m.retryCount)
            THEN [m1 EXCEPT !.pc = "done", !.ret = 0, !.err = "nothing is mapped"]
            ELSE [m1 EXCEPT !.retryCount = @ + 1]
       ELSE [m1 EXCEPT !.pc = "done", !.ret = data, !.err = "nil"]

\* Calls are made on a resource one after another, up to MaxMaps of them
\* (counted in last.width).
MaxMaps == 2

Subresources == {0, 1}

MapBecomes(m, call) ==
    /\ resource' = m
    /\ last' = call
    /\ UNCHANGED <<graphicsDriverInitialized, heap, theImages, natives, queue, panicked, regions,
                   path>>

\* Map is entered: var retryCount int.
CallMap ==
    /\ resource.pc \in {"idle", "done"}
    /\ last.width < MaxMaps
    /\ \E subresource \in Subresources :
        MapBecomes([NotMapping EXCEPT !.pc = "retry", !.subresource = subresource],
                   [NoCall EXCEPT !.op = "Map", !.width = last.width + 1])

\* One pass from the label retry: the native call and what follows it.
MapAttempt ==
    /\ resource.pc = "retry"
    /\ \E o \in NativeOutcomes :
        MapBecomes(mapAttempt(resource, o), last)

NextMap ==
    \/ CallMap
    \/ MapAttempt

\* A pass that has begun is carried through: Map runs on one goroutine and
\* the native call returns.
SpecMap == Init /\ [][NextMap]_vars /\ WF_vars(MapAttempt)

\* ============================================================ properties
ProgramState == <<graphicsDriverInitialized, heap, theImages, natives, queue>>

\* A region as WritePixels asks for it: of positive width and height, every
\* texel of it inside [0, width) x [0, height).
RegionWithin(region, img) ==
    /\ region.Max.X - region.Min.X > 0
    /\ region.Max.Y - region.Min.Y > 0
    /\ \A k \in DOMAIN Texels(region) :
        /\ Texels(region)[k].X \in 0..(img.width - 1)
        /\ Texels(region)[k].Y \in 0..(img.height - 1)

\* C1: the registry holds exactly the images constructed and not yet
\* disposed, in every reachable state; a successful NewImage adds its result,
\* Dispose removes its receiver, an extending Extend does both, and no other
\* call (restore, WritePixels, ClearPixels, DrawTriangles, ReadPixels, ...)
\* adds or removes a member.
C1_RegistryMembership ==
    /\ [](theImages.images = {i \in DOMAIN heap : heap[i].image # Nil})
    /\ [][theImages'.images =
            IF last'.op = "NewImage" /\ ~panicked' THEN theImages.images \cup {last'.ret}
            ELSE IF last'.op = "Dispose" THEN theImages.images \ {last'.img}
            ELSE IF last'.op = "Extend" /\ last'.ret # last'.img
                 THEN (theImages.images \cup {last'.ret}) \ {last'.img}
            ELSE theImages.images]_vars

\* An image has been disposed while another one, constructed later, stays registered.
C1_Witness ==
    /\ last.op = "Dispose"
    /\ Len(heap) = 2
    /\ heap[1].image = Nil
    /\ theImages.images = {2}

\* C2: NewImage called while InitializeGraphicsDriverState has never been
\* called (the flag is false exactly then: only that call sets it) panics,
\* and leaves the registry, the heap, the native images and the queue as
\* they were.
C2_NewImageNeedsDriver ==
    /\ [][~graphicsDriverInitialized /\ graphicsDriverInitialized'
            => last'.op = "InitializeGraphicsDriverState"]_vars
    /\ [][last'.op = "NewImage" /\ ~graphicsDriverInitialized
            => panicked' /\ last'.ret = Nil /\ UNCHANGED ProgramState]_vars

C2_Witness == last.op = "NewImage" /\ panicked /\ ~graphicsDriverInitialized

\* C3: WritePixels (and ClearPixels, which is WritePixels without pixels)
\* with a region that is not of positive size inside the image panics, and
\* changes nothing: no stale flag, not lastTarget, not the queue.
C3_WritePixelsRejectsBadRegion ==
    [][last'.op \in {"WritePixels", "ClearPixels"}
            /\ ~RegionWithin(last'.region, heap[last'.img])
        => panicked' /\ UNCHANGED ProgramState]_vars

\* A non-empty region that sticks out of the image was rejected, with a
\* second image registered.
C3_Witness ==
    /\ last.op = "WritePixels"
    /\ panicked
    /\ Dx(last.region) > 0 /\ Dy(last.region) > 0
    /\ Cardinality(theImages.images) = 2

\* The call last, made on a region inside the image or with vertices, mutates its receiver.
Mutates(call, img) ==
    \/ call.op \in {"WritePixels", "ClearPixels"} /\ RegionWithin(call.region, img)
    \/ call.op = "DrawTriangles" /\ call.vertices # <<>>

\* C4: after WritePixels or ClearPixels with a valid region, and after
\* DrawTriangles with vertices, the receiver is stale and exactly one call
\* (an upload, a clear of the region, a draw) on its native image has been
\* added to the queue, whatever the image's type and previous stale flag.
C4_MutationMarksStaleAndEnqueuesOnce ==
    [][Mutates(last', heap[last'.img]) =>
        /\ ~panicked'
        /\ heap'[last'.img].stale
        /\ heap'[last'.img].image = heap[last'.img].image
        /\ Len(queue') = Len(queue) + 1
        /\ SubSeq(queue', 1, Len(queue)) = queue
        /\ queue'[Len(queue')].dst = heap[last'.img].image
        /\ queue'[Len(queue')].region = last'.region
        /\ queue'[Len(queue')].kind =
            (IF last'.op = "WritePixels" THEN "write"
             ELSE IF last'.op = "ClearPixels" THEN "clear" ELSE "draw")]_vars

\* A volatile image that was clean has been cleared.
C4_Witness ==
    /\ last.op = "ClearPixels"
    /\ ~panicked
    /\ heap[last.img].imageType = ImageTypeVolatile
    /\ heap[last.img].stale
    /\ Len(queue) = 1

\* C6: DrawTriangles with an empty vertex list changes nothing: every stale
\* flag, lastTarget and the queue are as before the call.
C6_EmptyDrawChangesNothing ==
    [][last'.op = "DrawTriangles" /\ last'.vertices = <<>>
        => ~panicked' /\ UNCHANGED ProgramState]_vars

\* An empty draw was made on a clean image that is not the last target, from a source.
C6_Witness ==
    /\ last.op = "DrawTriangles"
    /\ last.vertices = <<>>
    /\ last.srcs # {}
    /\ ~heap[last.img].stale
    /\ theImages.lastTarget # last.img

\* C10: restore of a regular image whose stale flag is set panics, and
\* leaves the native image, the pixels, the stale flag and the queue as they
\* were; restore of a screen or volatile image, and of a clean regular one,
\* does not panic.
C10_RestoreOfStaleRegularPanics ==
    [][last'.op = "restore" =>
        /\ panicked' <=> (heap[last'.img].imageType = ImageTypeRegular /\ heap[last'.img].stale)
        /\ panicked' => UNCHANGED ProgramState]_vars

\* A stale regular image was restored, and the restore panicked.
C10_Witness ==
    /\ last.op = "restore"
    /\ panicked
    /\ heap[last.img].imageType = ImageTypeRegular
    /\ heap[last.img].stale

\* The value a pixel buffer of region holds for texel t (region contains t).
ByteAt(pixels, region, t) ==
    pixels.bytes[(t.Y - region.Min.Y) * Dx(region) + (t.X - region.Min.X) + 1]

\* C7: a WritePixels(buf, R) on a freshly constructed regular image is
\* recorded in the image's basePixels: Pixels.ReadPixels over exactly R then
\* returns the bytes of buf.
C7_ReadAfterWriteFidelity ==
    [][last.op = "NewImage" /\ last'.op = "WritePixels" /\ ~panicked'
            /\ heap[last'.img].imageType = ImageTypeRegular
        => PixelsReadPixels(heap'[last'.img].basePixels, last'.region)
            = last'.pixels.bytes]_vars

\* Every texel of region lies in one of the rectangles rects.
CoveredBy(region, rects) ==
    \A k \in DOMAIN Texels(region) :
        \E n \in DOMAIN rects : Covers(rects[n], Texels(region)[k])

\* C8: every successful WritePixels, with pixels or without (ClearPixels),
\* extends the receiver's staleRegions: the region is covered by them
\* afterwards, and the regions recorded before are still recorded.
C8_WritePixelsExtendsStaleRegions ==
    [][last'.op \in {"WritePixels", "ClearPixels"} /\ ~panicked' =>
        /\ CoveredBy(last'.region, heap'[last'.img].staleRegions)
        /\ \A n \in DOMAIN heap[last'.img].staleRegions :
            \E m \in DOMAIN heap'[last'.img].staleRegions :
                heap'[last'.img].staleRegions[m] = heap[last'.img].staleRegions[n]]_vars

\* The uploads the caller of the frame made: all the uploads in the queue
\* when restore panicked, else those to the native image restore replaced.
CallerWrites ==
    {n \in DOMAIN queue :
        queue[n].kind = "write" /\ (panicked \/ queue[n].dst # heap[last.img].image)}

Overlap(r, s) == \E k \in DOMAIN Texels(r) : Covers(s, Texels(r)[k])

\* What the caller's uploads put on texel t: the bytes of the upload that
\* covers it, transparent black where none does.
WrittenAt(t) ==
    LET c == {n \in CallerWrites : Covers(queue[n].region, t)}
        n == CHOOSE n \in c : \A m \in c : m <= n
    IN IF c = {} THEN 0 ELSE ByteAt(queue[n].pixels, queue[n].region, t)

\* What the queued calls leave on texel t of native image h: the bytes of
\* the latest upload or clear that covers it (0 - 1: never written).
NativeAt(h, t) ==
    LET c == {n \in DOMAIN queue : /\ queue[n].dst = h
                                   /\ queue[n].kind \in {"write", "clear"}
                                   /\ Covers(queue[n].region, t)}
        n == CHOOSE n \in c : \A m \in c : m <= n
    IN IF c = {} THEN 0 - 1
       ELSE IF queue[n].kind = "clear" THEN 0
       ELSE ByteAt(queue[n].pixels, queue[n].region, t)

\* C9: a regular image that received pairwise non-overlapping WritePixels
\* calls and is then restored, with no Dispose in between: restore returns
\* normally, and the new native image holds on every texel the bytes of the
\* write that covers it, and transparent black where no write does.
C9_RestoreRoundTrip ==
    (/\ last.op = "restore"
     /\ heap[last.img].imageType = ImageTypeRegular
     /\ \A m, n \in CallerWrites : m # n => ~Overlap(queue[m].region, queue[n].region))
    => /\ ~panicked
       /\ LET img == heap[last.img]
              whole == Texels(Rect(0, 0, img.width, img.height))
          IN \A k \in DOMAIN whole : NativeAt(img.image, whole[k]) = WrittenAt(whole[k])

\* C11, as stated: after restore returns normally on an image of any type,
\* the image's stale flag is false and its stale-region list is empty.
C11_RestoreClearsStaleOfAnyType ==
    [][last'.op = "restore" /\ ~panicked' =>
        /\ ~heap'[last'.img].stale
        /\ heap'[last'.img].staleRegions = <<>>]_vars

\* C11, amended: after restore returns normally on a regular or a screen
\* image, the stale flag is false and the stale-region list is empty; restore
\* of a volatile image leaves the flag and the list as they were.
C11_RestoreClearsStaleUnlessVolatile ==
    [][last'.op = "restore" /\ ~panicked' =>
        IF heap[last'.img].imageType = ImageTypeVolatile
        THEN /\ heap'[last'.img].stale = heap[last'.img].stale
             /\ heap'[last'.img].staleRegions = heap[last'.img].staleRegions
        ELSE /\ ~heap'[last'.img].stale
             /\ heap'[last'.img].staleRegions = <<>>]_vars

\* A screen image that had been written or drawn to (it is the last
\* invalidation target) was restored, and is not stale.
C11_Witness ==
    /\ last.op = "restore"
    /\ ~panicked
    /\ heap[last.img].imageType = ImageTypeScreen
    /\ theImages.lastTarget = last.img
    /\ ~heap[last.img].stale

\* C12: restore of a regular image that is not stale creates a fresh native
\* image of the image's logical width and height, enqueues on it a clear of
\* its full internal extent (0, 0, iw, ih), then one upload per pixel record
\* in order, and leaves the image's handle on the fresh native image; no
\* upload comes before the clear, and nothing is enqueued on the old handle.
C12_RestoreOrder ==
    [][last'.op = "restore" /\ heap[last'.img].imageType = ImageTypeRegular
            /\ ~heap[last'.img].stale =>
        LET img == heap[last'.img]
            h == heap'[last'.img].image
            n == Len(queue)
            recs == img.basePixels.records
        IN /\ ~panicked'
           /\ Len(natives') = Len(natives) + 1
           /\ h = Len(natives')
           /\ natives'[h].width = img.width
           /\ natives'[h].height = img.height
           /\ ~natives'[h].screen
           /\ Len(queue') = n + 2 + Len(recs)
           /\ SubSeq(queue', 1, n) = queue
           /\ queue'[n + 1].kind = "new" /\ queue'[n + 1].dst = h
           /\ queue'[n + 2].kind = "clear" /\ queue'[n + 2].dst = h
           /\ queue'[n + 2].region =
                Rectangle(0, 0, natives'[h].internalWidth, natives'[h].internalHeight)
           /\ \A k \in DOMAIN recs :
                /\ queue'[n + 2 + k].kind = "write"
                /\ queue'[n + 2 + k].dst = h
                /\ queue'[n + 2 + k].region = recs[k].region
           /\ \A m \in (n + 1)..Len(queue') : queue'[m].dst # img.image]_vars

\* A regular image narrower than its native image was restored.
C12_Witness ==
    /\ last.op = "restore"
    /\ ~panicked
    /\ heap[last.img].imageType = ImageTypeRegular
    /\ natives[heap[last.img].image].internalWidth > heap[last.img].width
    /\ Len(queue) = 2

\* C13: after Dispose of a registered image the image is out of the
\* registry and no other membership changed; its native image has been
\* disposed exactly once and its handle is nil; its pixel records are empty,
\* its stale flag false and its stale-region list empty; the invalidation
\* for the image ran before the removal (it is the last target).
C13_DisposePostcondition ==
    [][last'.op = "Dispose" =>
        LET i == last'.img
            old == heap[i].image
        IN /\ ~panicked'
           /\ i \in theImages.images
           /\ theImages'.images = theImages.images \ {i}
           /\ theImages'.lastTarget = i
           /\ heap'[i].image = Nil
           /\ heap'[i].basePixels = EmptyPixels
           /\ ~heap'[i].stale
           /\ heap'[i].staleRegions = <<>>
           /\ natives[old] # Gone /\ natives'[old] = Gone
           /\ Len(queue') = Len(queue) + 1
           /\ SubSeq(queue', 1, Len(queue)) = queue
           /\ queue'[Len(queue')].kind = "dispose" /\ queue'[Len(queue')].dst = old
           /\ \A j \in DOMAIN heap : j # i => heap'[j] = heap[j]]_vars

\* An image was disposed while another image, which is stale, stays registered.
C13_Witness ==
    /\ last.op = "Dispose"
    /\ ~panicked
    /\ \E j \in theImages.images : j # last.img /\ heap[j].stale

\* C14: Extend(width, height) on an image at least that wide and that high
\* returns the same image and changes nothing: no image is made or disposed,
\* the registry, the stale flags, lastTarget and the queue are as before (so
\* that any number of such calls is as good as one).
C14_ExtendOfCoveringImageIsNoOp ==
    [][last'.op = "Extend" /\ heap[last'.img].width >= last'.width
            /\ heap[last'.img].height >= last'.height
        => ~panicked' /\ last'.ret = last'.img /\ UNCHANGED ProgramState]_vars

\* Extend was called with exactly the size of a stale image, and returned it.
C14_Witness ==
    /\ last.op = "Extend"
    /\ last.ret = last.img
    /\ heap[last.img].width = last.width
    /\ heap[last.img].height = last.height
    /\ heap[last.img].stale

\* The positions in queue q of the draws that read native image h.
DrawsFrom(q, h) == {m \in DOMAIN q : q[m].kind = "draw" /\ h \in q[m].srcs}

\* C15: Extend(width, height) on an image that is narrower or lower than
\* asked returns another image, of the same type and registered, which is
\* the target of a draw from the old image; the old image is disposed and
\* out of the registry, the draw that reads its native image is enqueued
\* before that native image's Dispose, and of the two only the new image is
\* registered afterwards.
C15_ExtendReplacesImage ==
    [][last'.op = "Extend" /\ ~(heap[last'.img].width >= last'.width
                                /\ heap[last'.img].height >= last'.height) =>
        LET i == last'.img
            new == last'.ret
            old == heap[i].image
        IN /\ ~panicked'
           /\ new # i /\ new \notin DOMAIN heap /\ new \in DOMAIN heap'
           /\ heap'[new].imageType = heap[i].imageType
           /\ heap'[new].width = last'.width /\ heap'[new].height = last'.height
           /\ theImages'.images = (theImages.images \ {i}) \cup {new}
           /\ heap'[i].image = Nil
           /\ natives'[old] = Gone
           /\ \E d \in DrawsFrom(queue', old) : queue'[d].dst = heap'[new].image
           /\ \A d \in DrawsFrom(queue', old), x \in DOMAIN queue' :
                queue'[x].kind = "dispose" /\ queue'[x].dst = old => d < x
           /\ \E x \in DOMAIN queue' : queue'[x].kind = "dispose" /\ queue'[x].dst = old]_vars

\* A volatile image was replaced by a wider one: the old one is disposed,
\* the new one registered and stale from the copy.
C15_Witness ==
    /\ last.op = "Extend"
    /\ ~panicked
    /\ last.ret # last.img
    /\ heap[last.ret].imageType = ImageTypeVolatile
    /\ heap[last.ret].width = last.width
    /\ heap[last.ret].stale
    /\ heap[last.img].image = Nil
    /\ theImages.images = {last.ret}

\* What the first n calls of the queue leave on texel t of native image h:
\* a clear leaves transparent black, an upload its bytes, a draw of a quad
\* from a source image the source's texel at the quad's offset, as it was
\* when the draw was enqueued (0 - 1: never written, or read outside the source).
RECURSIVE NativeAfter(_, _, _)
NativeAfter(n, h, t) ==
    IF n = 0 THEN 0 - 1
    ELSE LET c == queue[n]
         IN IF c.dst = h /\ c.kind \in {"write", "clear", "draw"} /\ Covers(c.region, t)
            THEN IF c.kind = "clear" THEN 0
                 ELSE IF c.kind = "write" THEN ByteAt(c.pixels, c.region, t)
                 ELSE IF c.srcs = {} THEN 0 - 1
                 ELSE NativeAfter(n - 1, CHOOSE src \in c.srcs : TRUE,
                                  [X |-> t.X + c.vertices[1].SrcX - c.vertices[1].DstX,
                                   Y |-> t.Y + c.vertices[1].SrcY - c.vertices[1].DstY])
            ELSE NativeAfter(n - 1, h, t)

\* C16: Extend(w2, h2) with w2 >= w and h2 >= h, not both equal, on an image
\* with any content: a readback of the returned image over the original
\* bounds (0, 0, w, h) equals a readback of the original image just before
\* Extend, and the texels of the new native image outside the copied extent
\* are transparent black.
C16_ExtendPreservesContent ==
    (/\ last.op = "Extend" /\ ~panicked /\ last.ret # last.img
     /\ last.width >= heap[last.img].width /\ last.height >= heap[last.img].height) =>
        LET n == Len(queue)
            old == queue[n].dst
            new == heap[last.ret].image
            was == heap[last.img]
            copied == Rect(0, 0, InternalImageSize(was.width), InternalImageSize(was.height))
            bounds == Texels(Rect(0, 0, was.width, was.height))
            all == Texels(Rect(0, 0, natives[new].internalWidth, natives[new].internalHeight))
        IN /\ queue[n].kind = "dispose"
           /\ \A k \in DOMAIN bounds :
                /\ NativeAfter(n, new, bounds[k]) = NativeAfter(n - 4, old, bounds[k])
                /\ NativeAfter(n, new, bounds[k]) >= 0
           /\ \A k \in DOMAIN all :
                ~Covers(copied, all[k]) => NativeAfter(n, new, all[k]) = 0

\* An image that holds written texels was extended, and the new native
\* image is larger than the extent copied.
C16_Witness ==
    /\ last.op = "Extend" /\ ~panicked /\ last.ret # last.img
    /\ last.width > heap[last.img].width /\ last.height >= heap[last.img].height
    /\ \E m \in DOMAIN queue : queue[m].kind = "write"
    /\ natives[heap[last.ret].image].internalWidth > InternalImageSize(heap[last.img].width)
    /\ NativeAfter(Len(queue), heap[last.ret].image, [X |-> 0, Y |-> 0]) > 0

\* Every texel of r is a texel of s (of an empty r there is none).
ContainedIn(r, s) == \A k \in DOMAIN Texels(r) : Covers(s, Texels(r)[k])

\* C17: appendRegionRemovingDuplicates with a region contained in an entry
\* of the list leaves the list as it is; otherwise it removes every entry
\* contained in the region and appends the region.  From the empty list,
\* r1 then r2: if r2 contains r1 the list is [r2], if r1 contains r2 it is [r1].
C17_DedupOnInsert ==
    [][last'.op = "appendRegionRemovingDuplicates" =>
        LET r == last'.region
        IN /\ regions' =
                IF \E n \in DOMAIN regions : ContainedIn(r, regions[n]) THEN regions
                ELSE Append(SelectSeq(regions, LAMBDA e : ~ContainedIn(e, r)), r)
           /\ Len(regions) = 1 /\ ContainedIn(r, regions[1]) => regions' = regions
           /\ Len(regions) = 1 /\ ContainedIn(regions[1], r) /\ ~ContainedIn(r, regions[1])
                => regions' = <<r>>]_vars

\* The list holds only the larger of two nested regions, the last call
\* having passed the other one.
C17_Witness ==
    /\ last.op = "appendRegionRemovingDuplicates"
    /\ Len(regions) = 1
    /\ last.region # regions[1]
    /\ ~Empty(last.region)
    /\ ContainedIn(last.region, regions[1])

\* C18: after any sequence of appendRegionRemovingDuplicates calls from the
\* empty list, with equal, nested, overlapping or empty rectangles, no entry
\* of the list is contained in an entry at another index, and no region
\* occurs twice.
C18_NoRedundantRegion ==
    \A m, n \in DOMAIN regions :
        m # n => ~ContainedIn(regions[m], regions[n]) /\ regions[m] # regions[n]

\* Two overlapping regions, neither inside the other, are in the list, and
\* the last call passed an empty rectangle.
C18_Witness ==
    /\ last.op = "appendRegionRemovingDuplicates"
    /\ Empty(last.region)
    /\ Len(regions) = 2
    /\ \E k \in DOMAIN Texels(regions[1]) : Covers(regions[2], Texels(regions[1])[k])

\* C19: QuadTo(x1, y1, x2, y2) and CubicTo(x1, y1, x2, y2, x3, y3) leave the
\* current position on the destination, (x2, y2) or (x3, y3), from every
\* position, for every input and whatever isPointCloseToSegment answers at
\* each level.
C19_CurveToEndsAtDestination ==
    [][last'.op \in {"QuadTo", "CubicTo"} => path'.cur = last'.point]_vars

\* C20: in every state reached by MoveTo, LineTo, QuadTo and CubicTo calls
\* on an empty Path, the path has no segment, or every segment has a point
\* and the last point of the last segment is the current position; LineTo(x, y)
\* leaves the current position on (x, y), at the end of the last segment,
\* right after the position it started from.
C20_LineToFromCurrentPosition ==
    /\ [](\/ path.segs = <<>>
          \/ /\ \A n \in DOMAIN path.segs : Len(path.segs[n]) > 0
             /\ path.segs[Len(path.segs)][Len(path.segs[Len(path.segs)])] = path.cur)
    /\ [][last'.op = "LineTo" =>
            LET seg == path'.segs[Len(path'.segs)]
            IN /\ path'.cur = last'.point
               /\ seg[Len(seg)] = last'.point
               /\ last'.point # path.cur => Len(seg) > 1 /\ seg[Len(seg) - 1] = path.cur]_vars

\* LineTo was called on a path without segments, from the origin to another point.
C20_Witness ==
    /\ last.op = "LineTo"
    /\ path.segs = <<(<<point(0, 0), last.point>>)>>
    /\ last.point # point(0, 0)

\* C21: Extend(width, height) returns an image at least as wide and as high
\* as its receiver and at least as wide and as high as asked, also when the
\* request exceeds the receiver in one dimension only.
C21_ExtendReturnsLargerImage ==
    [][last'.op = "Extend" /\ ~panicked' =>
        /\ heap'[last'.ret].width >= heap[last'.img].width
        /\ heap'[last'.ret].height >= heap[last'.img].height
        /\ heap'[last'.ret].width >= last'.width
        /\ heap'[last'.ret].height >= last'.height]_vars

\* The worlds one call other than Dispose leads to from world w: the calls
\* of Next with their inputs, made on the images of w.
CallsOtherThanDispose(w) ==
    LET live == {j \in DOMAIN w.heap : w.heap[j].image # Nil}
    IN {[w EXCEPT !.init = TRUE], [w EXCEPT !.queue = <<>>]}
       \cup {NewImage(w, size[1], size[2], imageType) : size \in NewSizes, imageType \in ImageTypes}
       \cup {Extend(w, j, width, height)[1] : j \in live, width \in Sizes, height \in Sizes}
       \cup UNION {{WritePixels(w, j, pixels, region) : pixels \in Buffers(region)} :
                        j \in live, region \in Regions}
       \cup {ClearPixels(w, j, region) : j \in live, region \in Regions}
       \cup {DrawTriangles(w, j, {}, QuadVerticesFromDstAndSrc(0, 0, 1, 1, 0, 0, 1, 1),
                           Rect(0, 0, w.heap[j].width, w.heap[j].height)) : j \in live}
       \cup {restore(w, j) : j \in w.theImages.images}

\* The number of calls a sequence that makes an image clean again may take.
MaxCalls == 2

\* Image i, still held, is not stale in w, or is so after at most n calls
\* other than Dispose.
RECURSIVE CanBecomeClean(_, _, _)
CanBecomeClean(w, i, n) ==
    \/ ~w.panic /\ w.heap[i].image # Nil /\ ~w.heap[i].stale
    \/ /\ n > 0
       /\ ~w.panic
       /\ \E w1 \in CallsOtherThanDispose(w) : CanBecomeClean(w1, i, n - 1)

\* C22: for a regular image whose stale flag was set by WritePixels,
\* ClearPixels or DrawTriangles, or by the copy of Extend, there is a sequence
\* of calls other than Dispose after which the flag is false, so that a later
\* restore of the image does not panic.
C22_StaleRegularCanBecomeClean ==
    \A i \in Live :
        ~panicked /\ heap[i].imageType = ImageTypeRegular /\ heap[i].stale
            => CanBecomeClean(World, i, MaxCalls)

\* C22, the other way round: a regular image that is stale is stale after
\* every call that leaves it in the caller's hands, whatever the number of calls.
C22_StaleRegularStaysStale ==
    [][\A i \in Live :
        heap[i].imageType = ImageTypeRegular /\ heap[i].stale /\ heap'[i].image # Nil
            => heap'[i].stale]_vars

\* C23, as stated: in every reachable state lastTarget is nil or a member
\* of the registry; it is never an image that has been disposed.
C23_LastTargetIsRegistered ==
    theImages.lastTarget = Nil \/ theImages.lastTarget \in theImages.images

\* C23, amended: lastTarget is nil or an image that was constructed, and it
\* only changes to the receiver of a WritePixels, ClearPixels, DrawTriangles,
\* Dispose or Extend call; after Dispose(img), and after an Extend that
\* replaced img, lastTarget is img, the disposed image, which is out of the
\* registry; a lastTarget out of the registry is always a disposed image.
C23_LastTargetIsRegisteredOrDisposed ==
    /\ [](/\ theImages.lastTarget = Nil \/ theImages.lastTarget \in DOMAIN heap
          /\ theImages.lastTarget # Nil /\ theImages.lastTarget \notin theImages.images
                => heap[theImages.lastTarget].image = Nil)
    /\ [][theImages'.lastTarget # theImages.lastTarget =>
            /\ last'.op \in {"WritePixels", "ClearPixels", "DrawTriangles", "Dispose", "Extend"}
            /\ theImages'.lastTarget = last'.img]_vars
    /\ [][last'.op = "Dispose" \/ (last'.op = "Extend" /\ last'.ret # last'.img /\ ~panicked') =>
            /\ theImages'.lastTarget = last'.img
            /\ theImages'.lastTarget \notin theImages'.images
            /\ heap'[last'.img].image = Nil]_vars

\* An image was disposed while another image, which was the last target
\* before, stays registered: the cache holds the disposed image.
C23_Witness ==
    /\ last.op = "Dispose"
    /\ theImages.lastTarget = last.img
    /\ theImages.lastTarget \notin theImages.images
    /\ theImages.images # {}
    /\ \E j \in theImages.images : heap[j].stale

\* C24: right after NewImage(width, height, type) returns, for every type,
\* the new image is registered, its stale flag is false, its stale-region
\* list and its pixel records are empty, and exactly one clear has been
\* enqueued on its native image, over the full internal extent (0, 0, iw, ih)
\* of InternalSize; the native image is a screen image iff type is Screen.
C24_NewImagePostcondition ==
    [][last'.op = "NewImage" /\ ~panicked' =>
        LET i == last'.ret
            h == heap'[i].image
            n == Len(queue)
        IN /\ i \notin DOMAIN heap /\ i \in DOMAIN heap'
           /\ theImages'.images = theImages.images \cup {i}
           /\ ~heap'[i].stale
           /\ heap'[i].staleRegions = <<>>
           /\ heap'[i].basePixels = EmptyPixels
           /\ heap'[i].width = last'.width /\ heap'[i].height = last'.height
           /\ heap'[i].imageType = last'.imageType
           /\ h \notin DOMAIN natives /\ h \in DOMAIN natives'
           /\ natives'[h].width = last'.width /\ natives'[h].height = last'.height
           /\ natives'[h].screen <=> (last'.imageType = ImageTypeScreen)
           /\ SubSeq(queue', 1, n) = queue
           /\ Cardinality({m \in DOMAIN queue' : queue'[m].dst = h /\ queue'[m].kind = "clear"}) = 1
           /\ \A m \in DOMAIN queue' : queue'[m].dst = h => queue'[m].kind \in {"new", "clear"}
           /\ queue'[Len(queue')].kind = "clear" /\ queue'[Len(queue')].dst = h
           /\ queue'[Len(queue')].region =
                Rectangle(0, 0, natives'[h].internalWidth, natives'[h].internalHeight)
           /\ \A j \in DOMAIN heap : heap'[j] = heap[j]]_vars

\* A volatile image narrower than its native image was constructed beside
\* an image that is stale.
C24_Witness ==
    /\ last.op = "NewImage"
    /\ ~panicked
    /\ last.imageType = ImageTypeVolatile
    /\ natives[heap[last.ret].image].internalWidth > last.width
    /\ \E j \in theImages.images : j # last.ret /\ heap[j].stale

\* The texels covered by a list of regions.
CoveredSet(rs) == UNION {TexelSet(rs[n]) : n \in DOMAIN rs}

\* The entries of a are entries of b, in the order they have in b.
RECURSIVE IsSubsequence(_, _)
IsSubsequence(a, b) ==
    IF a = <<>> THEN TRUE
    ELSE IF b = <<>> THEN FALSE
    ELSE IF Head(a) = Head(b) THEN IsSubsequence(Tail(a), Tail(b))
    ELSE IsSubsequence(a, Tail(b))

\* C25: appendRegionRemovingDuplicates(L, r) never loses coverage: the
\* texels covered by the list afterwards are those covered by L together
\* with those of r; after any sequence of calls from the empty list the
\* covered texels are those of all the rectangles passed; the entries that
\* survive keep their order, and a region that is added is the last entry.
C25_AppendRegionKeepsCoverage ==
    /\ [](CoveredSet(regions) = last.passed)
    /\ [][last'.op = "appendRegionRemovingDuplicates" =>
            /\ CoveredSet(regions') = CoveredSet(regions) \cup TexelSet(last'.region)
            /\ \/ regions' = regions
               \/ /\ regions' # <<>>
                  /\ regions'[Len(regions')] = last'.region
                  /\ IsSubsequence(SubSeq(regions', 1, Len(regions') - 1), regions)]_vars

\* The last call added a region that overlaps the first entry and is not
\* inside it: three texels or more are covered by two entries.
C25_Witness ==
    /\ last.op = "appendRegionRemovingDuplicates"
    /\ Len(regions) = 2
    /\ regions[2] = last.region
    /\ TexelSet(regions[1]) \cap TexelSet(regions[2]) # {}
    /\ Cardinality(last.passed) >= 3

\* C26: when InitializeGraphicsDriverState returns an error,
\* graphicsDriverInitialized stays false (and a NewImage that follows still
\* panics); the flag becomes true only by a call that returns nil, and once
\* true it is never reset.
C26_InitializedOnlyAfterSuccess ==
    /\ [][last'.op = "InitializeGraphicsDriverState" /\ last'.err
            => graphicsDriverInitialized' = graphicsDriverInitialized]_vars
    /\ [][~graphicsDriverInitialized /\ graphicsDriverInitialized'
            => last'.op = "InitializeGraphicsDriverState" /\ ~last'.err]_vars
    /\ [][graphicsDriverInitialized => graphicsDriverInitialized']_vars
    /\ [][last.op = "InitializeGraphicsDriverState" /\ last.err /\ ~graphicsDriverInitialized
            /\ last'.op = "NewImage" => panicked']_vars

\* The points a call added to the path.
PointsAdded == PointCount(path'.segs) - PointCount(path.segs)

\* C27, as stated: every QuadTo and CubicTo call ends, whatever its input
\* and the answers of the flatness test; its recursion enters no level above
\* 11 (a call at level 11 returns at once); it makes at most 2^10 = 1024
\* LineTo calls, and so adds at most 1024 points to the path.
C27_FlatteningIsBounded ==
    [][last'.op \in {"QuadTo", "CubicTo"} =>
        /\ path'.deepest <= maxLevel + 1
        /\ path'.calls <= 2 ^ (maxLevel + 2) - 1
        /\ path'.lineTos <= 2 ^ maxLevel
        /\ PointsAdded <= 2 ^ maxLevel]_vars

\* C27, amended: the recursion enters no level above 11, in at most
\* 2^12 - 1 calls; it makes at most 1024 LineTo calls; these add at most
\* 1024 points to a path that has a segment, and 1025 to a path that has
\* none, where the first LineTo starts the segment with the current position.
C27_FlatteningIsBoundedFromASegment ==
    [][last'.op \in {"QuadTo", "CubicTo"} =>
        /\ path'.deepest <= maxLevel + 1
        /\ path'.calls <= 2 ^ (maxLevel + 2) - 1
        /\ path'.lineTos <= 2 ^ maxLevel
        /\ PointsAdded <= path'.lineTos + (IF path.segs = <<>> THEN 1 ELSE 0)
        /\ path.segs # <<>> => PointsAdded <= 2 ^ maxLevel]_vars

\* A curve was flattened at the last level in all its parts, after a MoveTo:
\* 1024 LineTo calls added 1024 points to the segment.
C27_Witness ==
    /\ last.op = "QuadTo"
    /\ path.lineTos = 2 ^ maxLevel
    /\ path.deepest = maxLevel
    /\ Len(path.segs) = 1
    /\ Len(path.segs[1]) = 2 ^ maxLevel + 1
    /\ path.cur = last.point

\* The segments of the path that have three points or more, in their order.
Fans == SelectSeq(path.segs, LAMBDA seg : Len(seg) >= 3)

\* The number of points of the first k of these segments.
RECURSIVE FanPoints(_)
FanPoints(k) == IF k = 0 THEN 0 ELSE FanPoints(k - 1) + Len(Fans[k])

\* The slices rv, ri start with the slices gv, gi; after them come, for
\* each of these segments, the vertices of its n points in their order and
\* the 3 * (n - 2) indices of the triples (base, base + i - 1, base + i),
\* i = 2..n-1, where base is the number of points of the segments before it;
\* with wrap, the triples are taken as the uint16 values they are stored in.
FanPerSegment(gv, gi, rv, ri, wrap) ==
    /\ Len(rv) = Len(gv) + FanPoints(Len(Fans))
    /\ SubSeq(rv, 1, Len(gv)) = gv
    /\ Len(ri) = Len(gi) + 3 * (FanPoints(Len(Fans)) - 2 * Len(Fans))
    /\ SubSeq(ri, 1, Len(gi)) = gi
    /\ \A k \in DOMAIN Fans :
        LET base == FanPoints(k - 1)
            first == Len(gi) + 3 * (base - 2 * (k - 1))
        IN /\ \A i \in 0..(Len(Fans[k]) - 1) :
                rv[Len(gv) + base + i + 1] = Vertex(Fans[k][i + 1])
           /\ \A i \in 2..(Len(Fans[k]) - 1) :
                /\ ri[first + 3 * (i - 2) + 1] = (IF wrap THEN uint16(base) ELSE base)
                /\ ri[first + 3 * (i - 2) + 2] = (IF wrap THEN uint16(base + i - 1) ELSE base + i - 1)
                /\ ri[first + 3 * (i - 2) + 3] = (IF wrap THEN uint16(base + i) ELSE base + i)

\* What a call of AppendVerticesAndIndicesForFilling returned, or, in a
\* state where none was made, what a call with nil slices returns.
Filled ==
    IF last.op = "AppendVerticesAndIndicesForFilling"
    THEN [gv |-> last.given.vertices, gi |-> last.given.indices,
          rv |-> last.vertices, ri |-> last.indices]
    ELSE LET r == AppendVerticesAndIndicesForFilling(path, <<>>, <<>>)
         IN [gv |-> <<>>, gi |-> <<>>, rv |-> r[1], ri |-> r[2]]

\* C28, as stated: AppendVerticesAndIndicesForFilling returns slices that
\* start with the vertices and indices given; a segment of fewer than three
\* points adds nothing; a segment of n >= 3 points adds n vertices, of its
\* points in their order, and 3 * (n - 2) indices, the triples (base,
\* base + i - 1, base + i) for i = 2..n-1, where base is the number of
\* vertices added for the segments before it in the same call.
C28_FillingAppendsOneFanPerSegment ==
    FanPerSegment(Filled.gv, Filled.gi, Filled.rv, Filled.ri, FALSE)

\* C28, amended: the same, the triples being (base, base + i - 1, base + i)
\* modulo 2^16; they are these numbers themselves when the segments of three
\* points or more have no more than 2^16 points together.
C28_FillingAppendsOneFanPerSegmentInUint16 ==
    /\ FanPerSegment(Filled.gv, Filled.gi, Filled.rv, Filled.ri, TRUE)
    /\ FanPoints(Len(Fans)) <= 65536
        => FanPerSegment(Filled.gv, Filled.gi, Filled.rv, Filled.ri, FALSE)

\* A path of a segment of three points, a segment of one point and a
\* segment of three points was appended to slices that held a vertex and
\* three indices.
C28_Witness ==
    /\ last.op = "AppendVerticesAndIndicesForFilling"
    /\ Len(path.segs) = 3
    /\ Len(path.segs[1]) = 3 /\ Len(path.segs[2]) = 1 /\ Len(path.segs[3]) = 3
    /\ Len(last.given.vertices) = 1
    /\ Len(last.given.indices) = 3
    /\ Len(last.vertices) = 7
    /\ Len(last.indices) = 9

\* C29: every index AppendVerticesAndIndicesForFilling appends is the
\* position, in the vertices it returns, of a vertex appended by the same
\* call: it lies in [len(vertices given), len(vertices returned)).
C29_FillingIndicesAddressOwnVertices ==
    last.op = "AppendVerticesAndIndicesForFilling" =>
        \A n \in (Len(last.given.indices) + 1)..Len(last.indices) :
            /\ last.indices[n] >= Len(last.given.vertices)
            /\ last.indices[n] < Len(last.vertices)

\* ------------------------------------------------------------------- C30
\* The native call of an attempt succeeded and mapped nothing.
MappedNothing(o) == o.hresult = S_OK /\ o.data = 0

\* Every attempt of the Map call before the k-th succeeded and mapped nothing.
NothingBefore(k) == \A j \in 1..(k - 1) : MappedNothing(resource.attempts[j])

\* What holds of a Map call at every moment: it has made at most 6 native
\* calls, as many as retryCount says while it is under way; no native call
\* follows one whose HRESULT is not S_OK, and the call then returns (0, the
\* HRESULT error); it returns the 'nothing is mapped' error when 6 native
\* calls in a row succeeded and mapped nothing, and only then; and it returns
\* (data, nil) with data # 0 exactly when its last native call returned
\* S_OK and stored the non-null data, every earlier one having succeeded
\* and mapped nothing.
MapProtocol ==
    LET m == resource
        n == Len(m.attempts)
    IN /\ n <= 6
       /\ m.retryCount \in 0..5
       /\ m.pc = "retry" => n = m.retryCount /\ NothingBefore(n + 1)
       /\ m.pc = "done" =>
            /\ n >= 1 /\ NothingBefore(n)
            /\ m.attempts[n].hresult # S_OK <=> m.err = "HRESULT"
            /\ (n = 6 /\ MappedNothing(m.attempts[n])) <=> m.err = "nothing is mapped"
            /\ ~MappedNothing(m.attempts[n]) \/ n = 6
            /\ (m.attempts[n].hresult = S_OK /\ m.attempts[n].data # 0)
                    <=> (m.err = "nil" /\ m.ret # 0)
            /\ m.err = "nil" => m.ret = m.attempts[n].data
            /\ m.err # "nil" => m.ret = 0

\* C30: a call of _ID3D12Resource.Map always returns, and at every moment
\* keeps to the retry protocol: an error at once for the first HRESULT that
\* is not S_OK, at most 6 native calls (retryCount 0..5) when nothing is
\* mapped, then the 'nothing is mapped' error, and (data, nil) with data # 0
\* exactly when an attempt returned S_OK with a non-null pointer after
\* attempts that all returned S_OK with a null one.
C30_MapRetryProtocol ==
    /\ []MapProtocol
    /\ (resource.pc = "retry") ~> (resource.pc = "done")

\* Map returned the data of its sixth native call, after five that
\* succeeded and mapped nothing (one of them with a dirty upper register half).
C30_Witness ==
    /\ resource.pc = "done"
    /\ Len(resource.attempts) = 6
    /\ resource.retryCount = 5
    /\ resource.err = "nil"
    /\ resource.ret = 4096
    /\ \E j \in 1..5 : resource.attempts[j].high = 1

====
